---- MODULE Spec2Model ----
(***************************************************************************)
(* A model of scripts/extract-campground.py: the page segmenter, the field *)
(* parser, the link attributor, the geocoder client and the JSON store,    *)
(* driven by main().  Text is modelled as TLA+ strings (sequences of       *)
(* characters) and every regular expression of the script is modelled by   *)
(* the match Python's backtracking matcher returns for it.                 *)
(***************************************************************************)
EXTENDS Integers, Sequences, FiniteSets, TLC

VARIABLES
    pc,           \* position of main(): "start", "extracted", "display", "save", "done", "raised"
    page,         \* the page the PDF collaborator yields: [lines, annots, height]
    args,         \* the parsed command line: [entry, part, list, save, no_coords]
    env,          \* the environment: [GOOGLE_MAPS_API_KEY, GOOGLE_PLACES_API_KEY]
    entry,        \* main's `entry` dict
    coordinates,  \* main's `coordinates`: None or Some(dict)
    db,           \* the store file data/campgrounds_new.json: None (no file) or Some(document)
    listed,       \* what --list obtained from find_entries_on_page
    sent,         \* number of HTTP requests sent by the running invocation
    out           \* what the running invocation has printed (message tags)

vars == <<pc, page, args, env, entry, coordinates, db, listed, sent, out>>

-----------------------------------------------------------------------------
(* Python values *)

None == <<>>
Some(v) == <<v>>
Val(o) == o[1]

\* dict.get(k): None when the key is absent
Get(d, k) == IF k \in DOMAIN d THEN Some(d[k]) ELSE None

EmptyDict == [k \in {} |-> None]

-----------------------------------------------------------------------------
(* Characters and str methods *)

UpperChars == "ABCDEFGHIJKLMNOPQRSTUVWXYZ"
LowerChars == "abcdefghijklmnopqrstuvwxyz"

Char(s, i) == SubSeq(s, i, i)

Upper == {Char(UpperChars, i) : i \in 1..Len(UpperChars)}
Lower == {Char(LowerChars, i) : i \in 1..Len(LowerChars)}

\* the characters \s matches and str.strip() removes
Whitespace == {" ", "\t", "\n"}

\* lit occurs in s at position i
StartsAt(s, lit, i) ==
    /\ i >= 1
    /\ i + Len(lit) - 1 <= Len(s)
    /\ SubSeq(s, i, i + Len(lit) - 1) = lit

Min(S) == CHOOSE x \in S : \A y \in S : x <= y
Max(S) == CHOOSE x \in S : \A y \in S : x >= y

\* the least position of S, 0 when S holds none
First(S) == IF S = {} THEN 0 ELSE Min(S)

\* str.find(lit, i) with 1-based positions: the first position >= i where lit occurs, 0 if none
Find(s, lit, i) == First({j \in i..(Len(s) - Len(lit) + 1) : StartsAt(s, lit, j)})

\* lit in s
Contains(s, lit) == Find(s, lit, 1) # 0

\* the first position >= i that holds no whitespace, Len(s)+1 if none
SkipWs(s, i) == Min({j \in i..Len(s) : Char(s, j) \notin Whitespace} \cup {Len(s) + 1})

\* the first position >= i that holds a newline, Len(s)+1 if none
NextNl(s, i) == Min({j \in i..Len(s) : Char(s, j) = "\n"} \cup {Len(s) + 1})

\* s without its trailing characters of chars
RStripSet(s, chars) == SubSeq(s, 1, Max({j \in 1..Len(s) : Char(s, j) \notin chars} \cup {0}))

\* str.rstrip('.')
RStripDot(s) == RStripSet(s, {"."})

\* str.strip()
Strip(s) ==
    LET From(a) == IF a > Len(s) THEN "" ELSE RStripSet(SubSeq(s, a, Len(s)), Whitespace)
    IN  From(SkipWs(s, 1))

LowerOf(c) ==
    IF c \in Upper
    THEN Char(LowerChars, CHOOSE i \in 1..Len(UpperChars) : Char(UpperChars, i) = c)
    ELSE c

\* str.lower()
RECURSIVE ToLower(_)
ToLower(s) ==
    IF s = "" THEN "" ELSE LowerOf(Char(s, 1)) \o ToLower(SubSeq(s, 2, Len(s)))

\* str.split(sep)
RECURSIVE Split(_, _)
Split(s, sep) ==
    LET At(p) ==
            IF p = 0 THEN <<s>>
            ELSE <<SubSeq(s, 1, p - 1)>> \o Split(SubSeq(s, p + Len(sep), Len(s)), sep)
    IN  At(Find(s, sep, 1))

\* '\n'.join(lines)
RECURSIVE JoinLines(_)
JoinLines(lines) ==
    IF lines = <<>> THEN ""
    ELSE IF Len(lines) = 1 THEN lines[1]
    ELSE lines[1] \o "\n" \o JoinLines(Tail(lines))

-----------------------------------------------------------------------------
(* The heading pattern                                                     *)
(*   ^([A-Z][a-zA-Z\s\.\']+),\s+([A-Z]{2})(?:\s+\(([A-Z])\))?$            *)
(* matched against a stripped line.  The city class holds no comma, so the *)
(* city group ends at the first comma of the line.                         *)

CityChars == Upper \cup Lower \cup Whitespace \cup {".", "'"}

NoHeading == [ok |-> FALSE, city |-> "", state |-> "", code |-> None]

HeadingMatch(s) ==
    LET Groups(comma, a, b) ==
            LET cityOk == /\ comma >= 3
                          /\ Char(s, 1) \in Upper
                          /\ \A i \in 2..(comma - 1) : Char(s, i) \in CityChars
                stateOk == /\ a > comma + 1
                           /\ a + 1 <= Len(s)
                           /\ Char(s, a) \in Upper
                           /\ Char(s, a + 1) \in Upper
                codeOk == /\ b > a + 2
                          /\ b + 2 = Len(s)
                          /\ Char(s, b) = "("
                          /\ Char(s, b + 1) \in Upper
                          /\ Char(s, b + 2) = ")"
            IN  IF ~(cityOk /\ stateOk) THEN NoHeading
                ELSE IF a + 1 = Len(s)
                     THEN [ok |-> TRUE, city |-> SubSeq(s, 1, comma - 1),
                           state |-> SubSeq(s, a, a + 1), code |-> None]
                ELSE IF codeOk
                     THEN [ok |-> TRUE, city |-> SubSeq(s, 1, comma - 1),
                           state |-> SubSeq(s, a, a + 1), code |-> Some(Char(s, b + 1))]
                ELSE NoHeading
        AfterState(comma, a) == Groups(comma, a, SkipWs(s, a + 2))
        AfterComma(comma) == AfterState(comma, SkipWs(s, comma + 1))
    IN  AfterComma(Find(s, ",", 1))

IsHeading(line) == HeadingMatch(Strip(line)).ok

\* IsFooter without the test for page-number lines
IsFooterAttributionOnly(line) == Contains(line, "RVingwithBikes.Com")

\* the footer test of the segmenter
IsFooter(line) ==
    \/ Contains(line, "RVingwithBikes.Com")
    \/ StartsAt(Strip(line), "Page ", 1)

-----------------------------------------------------------------------------
(* find_entries_on_page *)

\* page.extract_text(): the page's lines joined by newlines
PageText(p) == JoinLines([i \in 1..Len(p.lines) |-> p.lines[i].text])

Block(start, lines) ==
    [start_line |-> start, text |-> JoinLines(lines), city |-> None, state |-> None]

\* the loop over enumerate(lines); i is the 0-based line index, start is None or Some(index)
RECURSIVE SegmentLoop(_, _, _, _, _)
SegmentLoop(lines, i, entries, cur, start) ==
    IF i >= Len(lines)
    THEN IF cur # <<>> THEN Append(entries, Block(Val(start), cur)) ELSE entries
    ELSE LET line == lines[i + 1]
         IN  IF IsHeading(line)
             THEN SegmentLoop(lines, i + 1,
                      IF cur # <<>> THEN Append(entries, Block(Val(start), cur)) ELSE entries,
                      <<line>>, Some(i))
             ELSE IF start # None
             THEN IF IsFooter(line)
                  THEN SegmentLoop(lines, i + 1, entries, cur, start)
                  ELSE SegmentLoop(lines, i + 1, entries, Append(cur, line), start)
             ELSE SegmentLoop(lines, i + 1, entries, cur, start)

find_entries_on_page(p) == SegmentLoop(Split(PageText(p), "\n"), 0, <<>>, <<>>, None)

-----------------------------------------------------------------------------
(* extract_links_from_page *)

\* the annotations that are links with a URI action and a rectangle, converted from
\* the PDF's bottom-up rectangle [x0, y0, x1, y1] to top-down coordinates
LinkOf(annot, height) ==
    [uri |-> Val(Val(annot.a).uri),
     x0 |-> annot.rect[1],
     x1 |-> annot.rect[3],
     y_top |-> height - annot.rect[4],
     y_bottom |-> height - annot.rect[2]]

IsUriLink(annot) ==
    /\ annot.subtype = "/Link"
    /\ annot.a # None
    /\ Val(annot.a).uri # None
    /\ annot.rect # <<>>

RECURSIVE LinksOf(_, _)
LinksOf(annots, height) ==
    IF annots = <<>> THEN <<>>
    ELSE (IF IsUriLink(Head(annots)) THEN <<LinkOf(Head(annots), height)>> ELSE <<>>)
         \o LinksOf(Tail(annots), height)

extract_links_from_page(p) ==
    IF p.annots = None THEN <<>> ELSE LinksOf(Val(p.annots), p.height)

BandMargin == 5

\* the first link whose band holds text_y, None if no band holds it
RECURSIVE find_link_for_position(_, _)
find_link_for_position(links, text_y) ==
    IF links = <<>> THEN None
    ELSE IF /\ Head(links).y_top - BandMargin <= text_y
            /\ text_y <= Head(links).y_bottom + BandMargin
         THEN Some(Head(links).uri)
    ELSE find_link_for_position(Tail(links), text_y)

-----------------------------------------------------------------------------
(* page.extract_words(): the whitespace-separated words of every line, each *)
(* at the vertical offset of its line                                       *)

RECURSIVE Tokens(_, _)
Tokens(s, i) ==
    LET Word(a, z) == <<SubSeq(s, a, z - 1)>> \o Tokens(s, z)
        From(a) ==
            IF a > Len(s) THEN <<>>
            ELSE Word(a, Min({j \in a..Len(s) : Char(s, j) \in Whitespace} \cup {Len(s) + 1}))
    IN  From(SkipWs(s, i))

RECURSIVE WordsOf(_)
WordsOf(lines) ==
    IF lines = <<>> THEN <<>>
    ELSE LET At(toks, top) == [i \in 1..Len(toks) |-> [text |-> toks[i], top |-> top]]
         IN  At(Tokens(Head(lines).text, 1), Head(lines).top) \o WordsOf(Tail(lines))

extract_words(p) == WordsOf(p.lines)

\* [w for w in words if w['text'] == label]
WordsEqual(words, label) ==
    LET Is(w) == w.text = label
    IN  SelectSeq(words, Is)

-----------------------------------------------------------------------------
(* The field patterns.  Each search returns the leftmost match Python's     *)
(* matcher finds: \s* is greedy and gives characters back (the candidates   *)
(* for the start of the group run from the first non-blank character after  *)
(* the label down to the character after the label), .+? is lazy.           *)

NoMatch == [ok |-> FALSE, group |-> "", end |-> 0]

\* \s*\n matches at u (and, with atEnd, \s*$ too)
NameTailOk(s, u, atEnd) ==
    \/ NextNl(s, u) <= Len(s) /\ NextNl(s, u) < SkipWs(s, u)
    \/ atEnd /\ SkipWs(s, u) = Len(s) + 1

\* \.?\s*\n matches at t
NameStop(s, t, atEnd) ==
    \/ t <= Len(s) /\ Char(s, t) = "." /\ NameTailOk(s, t + 1, atEnd)
    \/ NameTailOk(s, t, atEnd)

\* the first position from t on where the lazy group may stop, 0 if it meets the end of the line first
FirstNameStop(s, t, atEnd) == First({j \in t..NextNl(s, t) : NameStop(s, j, atEnd)})

\* the position after the last newline of the blank run u..w-1
AfterLastNl(s, u, w) == Max({j + 1 : j \in {i \in u..(w - 1) : Char(s, i) = "\n"}} \cup {u})

NameMatchFrom(s, b, atEnd) ==
    LET End(u, w) == IF atEnd /\ w = Len(s) + 1 THEN w ELSE AfterLastNl(s, u, w)
        Match(t, u) == [ok |-> TRUE, group |-> SubSeq(s, b, t - 1), end |-> End(u, SkipWs(s, u))]
        Stop(t) ==
            Match(t, IF t <= Len(s) /\ Char(s, t) = "." /\ NameTailOk(s, t + 1, atEnd)
                     THEN t + 1 ELSE t)
    IN  Stop(FirstNameStop(s, b + 1, atEnd))

\* the candidates b, b-1, ..., q for the start of the group
RECURSIVE NameMatchAt(_, _, _, _)
NameMatchAt(s, q, b, atEnd) ==
    IF b < q THEN NoMatch
    ELSE IF b <= Len(s) /\ Char(s, b) # "\n" /\ FirstNameStop(s, b + 1, atEnd) # 0
         THEN NameMatchFrom(s, b, atEnd)
    ELSE NameMatchAt(s, q, b - 1, atEnd)

\* re.search(label \s*(.+?)\.?\s*\n) from position i; with atEnd the pattern
\* ends (?:\n|$) instead of \n
RECURSIVE NameSearch(_, _, _, _)
NameSearch(s, label, i, atEnd) ==
    LET Try(p, m) ==
            IF p = 0 THEN NoMatch
            ELSE IF m.ok THEN m
            ELSE NameSearch(s, label, p + 1, atEnd)
        After(p, q) == Try(p, NameMatchAt(s, q, SkipWs(s, q), atEnd))
        At(p) == After(p, p + Len(label))
    IN  At(Find(s, label, i))

\* re.findall(r'Trail:\s*(.+?)\.?\s*(?:\n|$)', s): the groups of the successive matches
RECURSIVE FindAllNames(_, _, _)
FindAllNames(s, label, i) ==
    LET Rest(m) == IF m.ok THEN <<m.group>> \o FindAllNames(s, label, m.end) ELSE <<>>
    IN  Rest(NameSearch(s, label, i, TRUE))

\* the lookahead (?=\nB1|\nB2|...|$) holds at t
BoundaryAt(s, t, bounds) ==
    \/ t = Len(s) + 1
    \/ t = Len(s) /\ Char(s, t) = "\n"
    \/ \E b \in bounds : StartsAt(s, "\n" \o b, t)

FirstBoundary(s, t, bounds) == Min({j \in t..(Len(s) + 1) : BoundaryAt(s, j, bounds)})

\* re.search(label \s*(.+?)(?=\nB1|...|$), s, re.DOTALL)
RECURSIVE BlockSearch(_, _, _, _)
BlockSearch(s, label, i, bounds) ==
    LET Cut(b, t) == [ok |-> TRUE, group |-> SubSeq(s, b, t - 1), end |-> t]
        Group(p, q, b) ==
            IF p = 0 THEN NoMatch
            ELSE IF b >= q THEN Cut(b, FirstBoundary(s, b + 1, bounds))
            ELSE BlockSearch(s, label, p + 1, bounds)
        Start(f) == IF f <= Len(s) THEN f ELSE Len(s)
        After(p, q) == Group(p, q, Start(SkipWs(s, q)))
        At(p) == After(p, p + Len(label))
    IN  At(Find(s, label, i))

\* the candidates b, b-1, ..., q for the start of a group that holds no newline
RECURSIVE LineMatchAt(_, _, _)
LineMatchAt(s, q, b) ==
    LET Cut(t) == [ok |-> TRUE, group |-> SubSeq(s, b, t - 1), end |-> t]
    IN  IF b < q THEN NoMatch
        ELSE IF b <= Len(s) /\ Char(s, b) # "\n" THEN Cut(NextNl(s, b))
        ELSE LineMatchAt(s, q, b - 1)

\* re.search(label \s*(.+?)(?=\n|$), s)
RECURSIVE LineSearch(_, _, _)
LineSearch(s, label, i) ==
    LET Try(p, m) ==
            IF p = 0 THEN NoMatch
            ELSE IF m.ok THEN m
            ELSE LineSearch(s, label, p + 1)
        After(p, q) == Try(p, LineMatchAt(s, q, SkipWs(s, q)))
        At(p) == After(p, p + Len(label))
    IN  At(Find(s, label, i))

-----------------------------------------------------------------------------
(* extract_entry_from_page *)

\* d[k] = v
Put(d, k, v) == [x \in DOMAIN d \cup {k} |-> IF x = k THEN v ELSE d[x]]

RECURSIVE FirstHeading(_)
FirstHeading(lines) ==
    LET Try(m) == IF m.ok THEN m ELSE FirstHeading(Tail(lines))
    IN  IF lines = <<>> THEN NoHeading ELSE Try(HeadingMatch(Strip(Head(lines))))

\* city, state and hookup_code from the first heading line of the block
WithLocation(e, text) ==
    LET Set(m) ==
            IF m.ok
            THEN Put(Put(Put(e, "city", Strip(m.city)), "state", m.state), "hookup_code", m.code)
            ELSE e
    IN  Set(FirstHeading(Split(text, "\n")))

trail_keywords ==
    {"/trail/", "/trails", "traillink.com", "recreationtrails",
     "loop", "greenway", "bikeway", "pathway", "/bicycling"}

\* is_trail_link without lower(): the keywords looked for in the URI as written
is_trail_link_as_written(uri) == \E kw \in trail_keywords : Contains(uri, kw)

is_trail_link(uri) == \E kw \in trail_keywords : Contains(ToLower(uri), kw)

\* the link of the campground of the entry at entry_index: the band of the
\* entry_index-th "Campground:" word of the page, unless it looks like a trail link
CampgroundLink(words, links, entry_index) ==
    LET Kept(potential_link) ==
            IF /\ potential_link # None
               /\ Val(potential_link) # ""
               /\ ~is_trail_link(Val(potential_link))
            THEN potential_link
            ELSE None
        At(cg_words) ==
            Kept(IF entry_index < Len(cg_words)
                 THEN find_link_for_position(links, cg_words[entry_index + 1].top)
                 ELSE None)
    IN  At(WordsEqual(words, "Campground:"))

WithCampground(e, text, words, links, entry_index) ==
    LET Set(cg_match) ==
            IF cg_match.ok
            THEN Put(e, "campground",
                     [name |-> RStripDot(Strip(cg_match.group)),
                      link |-> CampgroundLink(words, links, entry_index)])
            ELSE e
    IN  Set(NameSearch(text, "Campground:", 1, FALSE))

CgNotesBounds ==
    {"Trail:", "Trail Notes:", "Directions:", "Other:", "Related", "Contributor:", "RVingwithBikes"}
TrailNotesBounds == {"Directions:", "Other:", "Related", "Contributor:", "RVingwithBikes"}
DirectionsBounds == {"Other:", "Related", "Contributor:", "RVingwithBikes"}
OtherBounds == {"Related", "Contributor:", "RVingwithBikes"}
BlogBounds == {"Contributor:", "RVingwithBikes"}

WithCgNotes(e, text) ==
    LET Set(m) == IF m.ok THEN Put(e, "cg_notes", RStripDot(Strip(m.group))) ELSE e
    IN  Set(BlockSearch(text, "CG Notes:", 1, CgNotesBounds))

\* the text in which "Trail:" lines are looked for
TrailSection(text) ==
    IF Contains(text, "Trail Notes:") THEN Split(text, "Trail Notes:")[1] ELSE text

TrailMatches(text) == FindAllNames(TrailSection(text), "Trail:", 1)

\* the number of trails found in the entries before entry_index
RECURSIVE TrailWordOffset(_, _)
TrailWordOffset(page_entries, entry_index) ==
    IF entry_index = 0 THEN 0
    ELSE TrailWordOffset(page_entries, entry_index - 1)
         + Len(TrailMatches(page_entries[entry_index].text))

TrailAt(trail_matches, i, words, links, page_entries, entry_index) ==
    LET Link(trail_words, word_index) ==
            IF word_index < Len(trail_words)
            THEN find_link_for_position(links, trail_words[word_index + 1].top)
            ELSE None
    IN  [name |-> RStripDot(Strip(trail_matches[i + 1])),
         link |-> Link(WordsEqual(words, "Trail:"),
                       TrailWordOffset(page_entries, entry_index) + i)]

WithTrails(e, text, words, links, page_entries, entry_index) ==
    LET Set(trails) ==
            IF Len(trails) = 1 THEN Put(e, "trail", trails[1])
            ELSE Put(Put(e, "trails", trails), "trail", trails[1])
        All(trail_matches) ==
            IF trail_matches = <<>> THEN e
            ELSE Set([j \in 1..Len(trail_matches) |->
                         TrailAt(trail_matches, j - 1, words, links, page_entries, entry_index)])
    IN  All(TrailMatches(text))

WithBlock(e, text, key, label, bounds) ==
    LET Set(m) == IF m.ok THEN Put(e, key, Strip(m.group)) ELSE e
    IN  Set(BlockSearch(text, label, 1, bounds))

WithLine(e, text, key, label) ==
    LET Set(m) == IF m.ok THEN Put(e, key, Strip(m.group)) ELSE e
    IN  Set(LineSearch(text, label, 1))

Abs(x) == IF x < 0 THEN -x ELSE x

RECURSIVE LinksContaining(_, _)
LinksContaining(links, marker) ==
    IF links = <<>> THEN <<>>
    ELSE (IF Contains(Head(links).uri, marker) THEN <<Head(links)>> ELSE <<>>)
         \o LinksContaining(Tail(links), marker)

\* min(blog_links, key=...): the first link at the least distance
Closest(blog_links, blog_y) ==
    blog_links[CHOOSE i \in 1..Len(blog_links) :
        /\ \A j \in 1..Len(blog_links) :
               Abs(blog_links[i].y_top - blog_y) <= Abs(blog_links[j].y_top - blog_y)
        /\ \A j \in 1..(i - 1) :
               Abs(blog_links[j].y_top - blog_y) > Abs(blog_links[i].y_top - blog_y)]

\* the number of entries before entry_index that hold a blog post label
RECURSIVE RelatedWordOffset(_, _)
RelatedWordOffset(page_entries, entry_index) ==
    IF entry_index = 0 THEN 0
    ELSE RelatedWordOffset(page_entries, entry_index - 1)
         + (IF Contains(page_entries[entry_index].text, "Related Blog Post:") THEN 1 ELSE 0)

WithBlogPost(e, text, words, links, page_entries, entry_index) ==
    LET Linked(e1, related_words, offset, blog_links) ==
            IF offset < Len(related_words) /\ blog_links # <<>>
            THEN Put(e1, "blog_post_link",
                     Closest(blog_links, related_words[offset + 1].top).uri)
            ELSE e1
        Set(m) ==
            IF ~m.ok THEN e
            ELSE Linked(Put(e, "blog_post", Strip(m.group)),
                        WordsEqual(words, "Related"),
                        RelatedWordOffset(page_entries, entry_index),
                        LinksContaining(links, "chambersontheroad"))
    IN  Set(BlockSearch(text, "Related Blog Post:", 1, BlogBounds))

\* entry.get(key, {}).get('link')
LinkIn(e, key) == IF key \in DOMAIN e THEN e[key].link ELSE None

RECURSIVE FirstUnused(_, _)
FirstUnused(links, used_links) ==
    IF links = <<>> THEN None
    ELSE IF /\ Some(Head(links).uri) \notin used_links
            /\ ~Contains(Head(links).uri, "chambersontheroad")
         THEN Some(Head(links).uri)
    ELSE FirstUnused(Tail(links), used_links)

WithContributorBlog(e, text, links) ==
    LET used_links == {LinkIn(e, "campground"), LinkIn(e, "trail"), Get(e, "blog_post_link")}
        Linked(e1, found) ==
            IF found # None THEN Put(e1, "contributor_blog_link", Val(found)) ELSE e1
        Set(m) ==
            IF ~m.ok THEN e
            ELSE Linked(Put(e, "contributor_blog", Strip(m.group)), FirstUnused(links, used_links))
    IN  Set(LineSearch(text, "Contributor's Blog:", 1))

\* the fields of the block at entry_index, in the order the function sets them
ParseEntry(text, words, links, page_entries, entry_index) ==
    LET e1 == WithLocation(EmptyDict, text)
        e2 == WithCampground(e1, text, words, links, entry_index)
        e3 == WithCgNotes(e2, text)
        e4 == WithTrails(e3, text, words, links, page_entries, entry_index)
        e5 == WithBlock(e4, text, "trail_notes", "Trail Notes:", TrailNotesBounds)
        e6 == WithBlock(e5, text, "directions", "Directions:", DirectionsBounds)
        e7 == WithBlock(e6, text, "other", "Other:", OtherBounds)
        e8 == WithBlogPost(e7, text, words, links, page_entries, entry_index)
        e9 == WithLine(e8, text, "contributor", "Contributor:")
    IN  WithContributorBlog(e9, text, links)

\* the index addresses no entry of a page that has entries
OutOfRange(p, entry_index) ==
    LET Of(page_entries) == page_entries # <<>> /\ entry_index >= Len(page_entries)
    IN  Of(find_entries_on_page(p))

\* the entry the function returns ({} when there is nothing to extract)
extract_entry_from_page(p, entry_index) ==
    LET Of(page_entries) ==
            IF page_entries = <<>> \/ entry_index >= Len(page_entries) THEN EmptyDict
            ELSE ParseEntry(page_entries[entry_index + 1].text, extract_words(p),
                            extract_links_from_page(p), page_entries, entry_index)
    IN  Of(find_entries_on_page(p))

-----------------------------------------------------------------------------
(* get_coordinates_from_google *)

\* bool(x) of an optional string
Truthy(o) == o # None /\ Val(o) # ""

\* os.environ.get('GOOGLE_MAPS_API_KEY') or os.environ.get('GOOGLE_PLACES_API_KEY')
GOOGLE_PLACES_API_KEY(e) ==
    IF Truthy(e.GOOGLE_MAPS_API_KEY) THEN e.GOOGLE_MAPS_API_KEY ELSE e.GOOGLE_PLACES_API_KEY

\* RequestSent for a client that posts before it looks at the key
RequestSentFirst(e) == TRUE

\* the request is sent only when a key is there
RequestSent(e) == Truthy(GOOGLE_PLACES_API_KEY(e))

\* d.get(k, {}).get(k2)
Get2(d, k, k2) == IF k \in DOMAIN d THEN Get(d[k], k2) ELSE None

PlaceRecord(place) ==
    [placeId |-> Get(place, "id"),
     displayName |-> Get2(place, "displayName", "text"),
     formattedAddress |-> Get(place, "formattedAddress"),
     latitude |-> Get2(place, "location", "latitude"),
     longitude |-> Get2(place, "location", "longitude")]

\* the result for the response the HTTP collaborator gives:
\*   [kind |-> "raise", message] when requests.post or raise_for_status raises,
\*   [kind |-> "json", data] otherwise
get_coordinates_from_google(e, response) ==
    IF ~Truthy(GOOGLE_PLACES_API_KEY(e)) THEN [error |-> "No API key found"]
    ELSE IF response.kind = "raise" THEN [error |-> response.message]
    ELSE IF "places" \in DOMAIN response.data /\ Len(response.data.places) > 0
         THEN PlaceRecord(response.data.places[1])
    ELSE [error |-> "No places found"]

-----------------------------------------------------------------------------
(* load_database and save_entry_to_database *)

DefaultDatabase ==
    [entries |-> <<>>, metadata |-> [version |-> "2.0", source |-> "eBook PDF extraction"]]

load_database(file) == IF file = None THEN DefaultDatabase ELSE Val(file)

EntryKeys ==
    {"city", "state", "campground", "cg_notes", "trail", "trails", "trail_notes",
     "directions", "other", "blog_post", "blog_post_link", "contributor",
     "contributor_blog", "contributor_blog_link"}
CoordinateKeys == {"latitude", "longitude", "placeId"}
FinalKeys == EntryKeys \cup {"hookup_type"} \cup CoordinateKeys

\* CoordinateField with a default for a key the result does not carry
CoordinateFieldDefaulted(coords, k) ==
    IF coords # None /\ DOMAIN Val(coords) # {}
    THEN IF k \in DOMAIN Val(coords) THEN Val(coords)[k] ELSE Some(0)
    ELSE None

\* coordinates.get(k) if coordinates and k in coordinates else None
CoordinateField(coords, k) ==
    IF coords # None /\ DOMAIN Val(coords) # {} /\ k \in DOMAIN Val(coords)
    THEN Val(coords)[k]
    ELSE None

\* final_entry as first built: every key, None where there is no value
BuiltEntry(e, coords) ==
    [k \in FinalKeys |->
        IF k = "hookup_type" THEN Some(IF k \in DOMAIN e THEN e[k] ELSE "full")
        ELSE IF k \in CoordinateKeys THEN CoordinateField(coords, k)
        ELSE Get(e, k)]

\* {k: v for k, v in final_entry.items() if v is not None}
RemoveNone(built) == [k \in {x \in DOMAIN built : built[x] # None} |-> Val(built[k])]

FinalEntry(e, coords) == RemoveNone(BuiltEntry(e, coords))

\* e.get('campground', {}).get('name')
NameOf(d) == IF "campground" \in DOMAIN d THEN Get(d.campground, "name") ELSE None

\* the duplicate check of one stored entry: "raise" stands for the KeyError of
\* final_entry['city'] or final_entry['state']
Matches(e, final) ==
    IF "city" \notin DOMAIN final THEN "raise"
    ELSE IF Get(e, "city") # Some(final.city) THEN "no"
    ELSE IF "state" \notin DOMAIN final THEN "raise"
    ELSE IF Get(e, "state") = Some(final.state) /\ NameOf(e) = NameOf(final) THEN "yes"
    ELSE "no"

\* next(e for e in entries if ..., None): the position of the first match, 0 for None, -1 for a KeyError
RECURSIVE Existing(_, _, _)
Existing(entries, final, i) ==
    LET On(m) ==
            IF m = "raise" THEN -1
            ELSE IF m = "yes" THEN i
            ELSE Existing(entries, final, i + 1)
    IN  IF i > Len(entries) THEN 0 ELSE On(Matches(entries[i], final))

\* list.index(x): the first position holding a value equal to x
IndexOf(entries, x) == Min({i \in 1..Len(entries) : entries[i] = x})

\* Merged without the replacement: the new record is appended whatever was found
MergedAppending(entries, final, found) == Append(entries, final)

\* db['entries'] after the duplicate check has found `found`
Merged(entries, final, found) ==
    IF found > 0 /\ DOMAIN entries[found] # {}
    THEN [entries EXCEPT ![IndexOf(entries, entries[found])] = final]
    ELSE Append(entries, final)

\* the outcome of the call on the store file: the file as rewritten, or pc "raised"
\* with the file as it was
save_entry_to_database(file, e, coords) ==
    LET Write(database, final, found) ==
            IF found = -1 THEN [raised |-> TRUE, file |-> file]
            ELSE [raised |-> FALSE,
                  file |-> Some([database EXCEPT
                                    !.entries = Merged(database.entries, final, found)])]
        Check(database, final) == Write(database, final, Existing(database.entries, final, 1))
    IN  Check(load_database(file), FinalEntry(e, coords))

-----------------------------------------------------------------------------
(* The pages, command lines, environments and HTTP responses of the model *)

\* a page of text lines 20 apart, with the given annotations
PageOf(texts, annots) ==
    [lines |-> [i \in 1..Len(texts) |-> [text |-> texts[i], top |-> 100 + 20 * (i - 1)]],
     annots |-> annots,
     height |-> 800]

\* a link annotation over text line `line`, `rows` lines tall
LinkAnnot(uri, line, rows) ==
    [subtype |-> "/Link",
     a |-> Some([uri |-> Some(uri)]),
     rect |-> <<72, 800 - (100 + 20 * (line + rows - 2) + 12), 300, 800 - (100 + 20 * (line - 1))>>]

\* two entries: the first with an attributed campground link and an unlinked trail,
\* the second with an unlinked campground and two trails
PageTwoEntries ==
    PageOf(<<"Asheville, NC",
             "Campground: Lake Lure.",
             "CG Notes: Quiet sites.",
             "Trail: Creek Path.",
             "Trail Notes: Flat and paved.",
             "Boone, NC (P)",
             "Campground: Big Pine RV Park",
             "Trail: Ridge Run",
             "Trail: River Loop",
             "Page 17">>,
           Some(<<LinkAnnot("http://lakelure.com", 2, 1),
                  LinkAnnot("https://www.TrailLink.com/ridge-run", 8, 1)>>))

\* the first entry of PageTwoEntries again with other notes, and a campground whose
\* name differs from it in case only
PageOtherNotes ==
    PageOf(<<"Asheville, NC",
             "Campground: Lake Lure",
             "CG Notes: Busy in summer.",
             "Asheville, NC",
             "Campground: Lake lure">>,
           None)

\* a page without a heading line
PageNoEntries == PageOf(<<"Introduction", "Page 3">>, None)

MainPages == {PageTwoEntries, PageOtherNotes, PageNoEntries}

\* the largest --entry given
MaxEntryArg == 2

\* the largest number of records the store is let grow to
MaxStore == 2

\* the command lines: every --entry with and without --save and --no-coords for
\* part 1, one saving run for part 2, and --list
ArgsChoices ==
    [entry : 0..MaxEntryArg, part : {1}, list : {FALSE}, save : BOOLEAN, no_coords : BOOLEAN]
    \cup [entry : {0}, part : {2}, list : {FALSE}, save : {TRUE}, no_coords : {TRUE}]
    \cup [entry : {0}, part : {1}, list : {TRUE}, save : {FALSE}, no_coords : {FALSE}]

EnvChoices ==
    {[GOOGLE_MAPS_API_KEY |-> None, GOOGLE_PLACES_API_KEY |-> None],
     [GOOGLE_MAPS_API_KEY |-> Some(""), GOOGLE_PLACES_API_KEY |-> Some("key-b")],
     [GOOGLE_MAPS_API_KEY |-> Some("key-a"), GOOGLE_PLACES_API_KEY |-> None]}

FullPlace ==
    [id |-> "place-1",
     displayName |-> [text |-> "Lake Lure Campground"],
     formattedAddress |-> "1 Lake Rd",
     location |-> [latitude |-> 35, longitude |-> -82]]

Responses ==
    {[kind |-> "raise", message |-> "connection failed"],
     [kind |-> "json", data |-> EmptyDict],
     [kind |-> "json", data |-> [places |-> <<>>]],
     [kind |-> "json", data |-> [places |-> <<FullPlace>>]],
     [kind |-> "json", data |-> [places |-> <<[id |-> "place-2"]>>]]}

-----------------------------------------------------------------------------
(* main() *)

\* what extract_entry_from_page returns and whether it reports the index out of range
Extraction(p, k) == [entry |-> extract_entry_from_page(p, k), out_of_range |-> OutOfRange(p, k)]

\* Extraction over the pages and indexes of main's runs, evaluated once
MainExtractions == [p \in MainPages, k \in 0..MaxEntryArg |-> Extraction(p, k)]

Extracted(p, k) == IF p \in MainPages THEN MainExtractions[p, k] ELSE Extraction(p, k)

\* one run of the script begins: the command line is parsed
Invoke ==
    /\ pc = "idle"
    /\ \E p \in MainPages, a \in ArgsChoices, e \in EnvChoices :
          /\ page' = p
          /\ args' = a
          /\ env' = e
    /\ pc' = "start"
    /\ UNCHANGED <<entry, coordinates, db, listed, sent, out>>

\* --list: print the entries of the page and return
List ==
    /\ pc = "start"
    /\ args.list
    /\ listed' = find_entries_on_page(page)
    /\ out' = out \cup {"entries on page"}
    /\ pc' = "done"
    /\ UNCHANGED <<page, args, env, entry, coordinates, db, sent>>

\* extract_entry_from_page, then entry['hookup_type'] = hookup_type
Extract ==
    /\ pc = "start"
    /\ ~args.list
    /\ \E x \in {Extracted(page, args.entry)} :
          /\ entry' = Put(x.entry, "hookup_type", IF args.part = 1 THEN "full" ELSE "partial")
          /\ out' = out \cup {"extracting"}
                   \cup (IF x.out_of_range THEN {"entry index out of range"} ELSE {})
    /\ pc' = "extracted"
    /\ UNCHANGED <<page, args, env, coordinates, db, listed, sent>>

\* not args.no_coords and entry.get('campground', {}).get('name')
WantsCoordinates == ~args.no_coords /\ Truthy(NameOf(entry))

\* the lookup, answered by the HTTP collaborator when the request is sent
Lookup ==
    /\ pc = "extracted"
    /\ WantsCoordinates
    /\ \E response \in Responses :
          coordinates' = Some(get_coordinates_from_google(env, response))
    /\ sent' = IF RequestSent(env) THEN sent + 1 ELSE sent
    /\ out' = out \cup {"looking up coordinates"}
    /\ pc' = "display"
    /\ UNCHANGED <<page, args, env, entry, db, listed>>

SkipLookup ==
    /\ pc = "extracted"
    /\ ~WantsCoordinates
    /\ pc' = "display"
    /\ UNCHANGED <<page, args, env, entry, coordinates, db, listed, sent, out>>

\* display_entry
Display ==
    /\ pc = "display"
    /\ out' = out \cup {"entry"}
             \cup (IF coordinates = None \/ DOMAIN Val(coordinates) = {} THEN {}
                   ELSE IF "error" \in DOMAIN Val(coordinates) THEN {"coordinates error"}
                   ELSE {"coordinates"})
    /\ pc' = "save"
    /\ UNCHANGED <<page, args, env, entry, coordinates, db, listed, sent>>

\* if args.save: save_entry_to_database(entry, coordinates)
Save ==
    /\ pc = "save"
    /\ args.save
    /\ \E r \in {save_entry_to_database(db, entry, coordinates)} :
          /\ Len(load_database(r.file).entries) <= MaxStore
          /\ db' = r.file
          /\ pc' = IF r.raised THEN "raised" ELSE "done"
          /\ out' = IF r.raised THEN out ELSE out \cup {"saved"}
    /\ UNCHANGED <<page, args, env, entry, coordinates, listed, sent>>

NoSave ==
    /\ pc = "save"
    /\ ~args.save
    /\ out' = out \cup {"to save, run with --save"}
    /\ pc' = "done"
    /\ UNCHANGED <<page, args, env, entry, coordinates, db, listed, sent>>

\* the process ends: only the store file outlives it
Exit ==
    /\ pc \in {"done", "raised"}
    /\ pc' = "idle"
    /\ page' = PageNoEntries
    /\ args' = [entry |-> 0, part |-> 1, list |-> FALSE, save |-> FALSE, no_coords |-> FALSE]
    /\ env' = [GOOGLE_MAPS_API_KEY |-> None, GOOGLE_PLACES_API_KEY |-> None]
    /\ entry' = EmptyDict
    /\ coordinates' = None
    /\ listed' = <<>>
    /\ sent' = 0
    /\ out' = {}
    /\ UNCHANGED db

Init ==
    /\ pc = "idle"
    /\ page = PageNoEntries
    /\ args = [entry |-> 0, part |-> 1, list |-> FALSE, save |-> FALSE, no_coords |-> FALSE]
    /\ env = [GOOGLE_MAPS_API_KEY |-> None, GOOGLE_PLACES_API_KEY |-> None]
    /\ entry = EmptyDict
    /\ coordinates = None
    /\ db = None
    /\ listed = <<>>
    /\ sent = 0
    /\ out = {}

Next == Invoke \/ List \/ Extract \/ Lookup \/ SkipLookup \/ Display \/ Save \/ NoSave \/ Exit

Spec == Init /\ [][Next]_vars

-----------------------------------------------------------------------------
(* Properties of the store and of main() *)

\* the records of the store file (none when there is no file)
StoreEntries(file) == load_database(file).entries

\* city, state and campground name all equal
SameKey(r, e) ==
    /\ Get(r, "city") = Get(e, "city")
    /\ Get(r, "state") = Get(e, "state")
    /\ NameOf(r) = NameOf(e)

\* the step in which main calls save_entry_to_database
SaveCalled == pc = "save" /\ args.save /\ pc' # "save"

\* C1: a save replaces the stored record of the same (city, state, campground name)
\* at its index, leaving the other records as they were, and appends the new record
\* at the end when no stored record has that key.
C1_SaveReplacesOrAppends ==
    [][SaveCalled =>
          LET old == StoreEntries(db)
              new == StoreEntries(db')
              final == FinalEntry(entry, coordinates)
              hits == {i \in 1..Len(old) : SameKey(old[i], final)}
          IN  IF hits # {}
              THEN \E i \in hits : new = [old EXCEPT ![i] = final]
              ELSE new = Append(old, final)]_vars

\* the running invocation asked for an entry the page does not have
IndexOutOfRange == pc # "idle" /\ ~args.list /\ Extracted(page, args.entry).out_of_range

\* C2: when the entry index is out of range for the page, the run reports it and
\* saves nothing: no step of the run changes the entries of the store, with or
\* without --save and whatever the store held.
C2_OutOfRangeSavesNothing ==
    [][IndexOutOfRange =>
          /\ StoreEntries(db') = StoreEntries(db)
          /\ pc' \notin {"idle", "start"} => "entry index out of range" \in out']_vars

\* the {name, link} records of a stored record
NameLinkRecords(r) ==
    (IF "campground" \in DOMAIN r THEN {r.campground} ELSE {})
    \cup (IF "trail" \in DOMAIN r THEN {r.trail} ELSE {})
    \cup (IF "trails" \in DOMAIN r THEN {r.trails[j] : j \in 1..Len(r.trails)} ELSE {})

\* C3: no record of the store holds a null placeholder: every campground, trail
\* and trails record that is stored carries a link.
C3_NoNullPlaceholders ==
    \A i \in 1..Len(StoreEntries(db)) :
        \A x \in NameLinkRecords(StoreEntries(db)[i]) : x.link # None

\* the coordinate result carries key k
Carries(coords, k) ==
    /\ coords # None
    /\ k \in DOMAIN Val(coords)
    /\ Val(coords)[k] # None

\* the run has just saved its entry
JustSaved == pc = "done" /\ "saved" \in out

\* C4: the record a run has saved holds latitude, longitude or placeId only if the
\* coordinate result carries that key, with the value carried; an error result or
\* a skipped lookup gives the record none of the three.
C4_CoordinateKeysOnlyIfCarried ==
    JustSaved =>
        \A i \in 1..Len(StoreEntries(db)) :
            LET r == StoreEntries(db)[i]
            IN  SameKey(r, entry) =>
                    \A k \in CoordinateKeys \cap DOMAIN r :
                        Carries(coordinates, k) /\ r[k] = Val(Val(coordinates)[k])

\* an entry of a page was saved after the lookup found no place
C4_Witness ==
    /\ JustSaved
    /\ "city" \in DOMAIN entry
    /\ coordinates = Some([error |-> "No places found"])
    /\ \E i \in 1..Len(StoreEntries(db)) :
          /\ SameKey(StoreEntries(db)[i], entry)
          /\ CoordinateKeys \cap DOMAIN StoreEntries(db)[i] = {}

\* neither variable of the environment holds a key
NoKeyAvailable ==
    /\ env.GOOGLE_MAPS_API_KEY \in {None, Some("")}
    /\ env.GOOGLE_PLACES_API_KEY \in {None, Some("")}

PlaceRecordKeys == {"placeId", "displayName", "formattedAddress", "latitude", "longitude"}

\* C9: without an API key the geocoder returns the error "No API key found" and
\* sends no request; whatever it returns is a coordinate record or an error
\* result, never both.
C9_MissingCredential ==
    coordinates # None =>
        /\ ("error" \in DOMAIN Val(coordinates)) # (DOMAIN Val(coordinates) \cap PlaceRecordKeys # {})
        /\ "error" \in DOMAIN Val(coordinates) \/ DOMAIN Val(coordinates) = PlaceRecordKeys
        /\ NoKeyAvailable => Val(coordinates) = [error |-> "No API key found"] /\ sent = 0

\* a lookup was made without a key
C9_Witness ==
    /\ pc = "display"
    /\ NoKeyAvailable
    /\ coordinates = Some([error |-> "No API key found"])
    /\ sent = 0

-----------------------------------------------------------------------------
(* find_entries_on_page over the pages of a bounded line pool *)

\* the values the variables of a run hold before main has extracted anything
NoArgs == [entry |-> 0, part |-> 1, list |-> FALSE, save |-> FALSE, no_coords |-> FALSE]
NoEnv == [GOOGLE_MAPS_API_KEY |-> None, GOOGLE_PLACES_API_KEY |-> None]

\* heading lines (two of which the footer test holds for too), footer lines and
\* other lines
SegmentLines ==
    {"Asheville, NC", "  Boone, NC (P)", "Page Springs, AZ", "RVingwithBikes.Com, TX",
     "Campground: Lake Lure", "Trail Notes: see Page 4", "Page 17",
     "www.RVingwithBikes.Com", "nc, Asheville"}

\* the largest number of lines of a page given to the segmenter
MaxLines == 3

SegmentPages ==
    {PageOf(texts, None) : texts \in UNION {[1..n -> SegmentLines] : n \in 0..MaxLines}}

\* main is run with --list on a page of the pool
InitSegment ==
    /\ pc = "start"
    /\ page \in SegmentPages
    /\ args = [NoArgs EXCEPT !.list = TRUE]
    /\ env = NoEnv
    /\ entry = EmptyDict
    /\ coordinates = None
    /\ db = None
    /\ listed = <<>>
    /\ sent = 0
    /\ out = {}

SpecSegment == InitSegment /\ [][List]_vars

\* the lines of the page's text
PageLines(p) == Split(PageText(p), "\n")

\* the 0-based indexes of the lines that match the heading pattern
HeadingIndexes(p) == {i \in 0..(Len(PageLines(p)) - 1) : IsHeading(PageLines(p)[i + 1])}

\* the i-th least number of S
Nth(S, i) == CHOOSE x \in S : Cardinality({y \in S : y < x}) = i - 1

\* text begins with the line `line`
BeginsWith(text, line) == text = line \/ StartsAt(text, line \o "\n", 1)

\* a line containing the site-attribution string, or a 'Page N' line
FooterLine(line) ==
    \/ \E i \in 1..Len(line) : StartsAt(line, "RVingwithBikes.Com", i)
    \/ StartsAt(Strip(line), "Page ", 1)

\* --list has run
Listed == pc = "done" /\ args.list

\* one block per heading, in heading order, each starting at its heading
BlocksAtHeadings ==
    /\ Len(listed) = Cardinality(HeadingIndexes(page))
    /\ \A i \in 1..Len(listed) :
          /\ listed[i].start_line = Nth(HeadingIndexes(page), i)
          /\ BeginsWith(listed[i].text, PageLines(page)[listed[i].start_line + 1])

\* the lines of all blocks
BlockLines == UNION {{Split(listed[i].text, "\n")[j] : j \in 1..Len(Split(listed[i].text, "\n"))} :
                        i \in 1..Len(listed)}

\* C5 as stated: one block per heading line, in heading order, starting at its
\* heading's line index and beginning with the heading line, and no footer line in
\* the text of any block.
C5_NoFooterLineInBlocks ==
    Listed => BlocksAtHeadings /\ \A line \in BlockLines : ~FooterLine(line)

\* C5: one block per heading line, in heading order, starting at its heading's line
\* index and beginning with the heading line, and no footer line that is not itself
\* a heading line in the text of any block.
C5_BlocksAtHeadingsWithoutFooters ==
    Listed => BlocksAtHeadings /\ \A line \in BlockLines : FooterLine(line) => IsHeading(line)

\* two blocks were listed from a page that has a footer line after its first
\* heading and a heading line the footer test holds for
C5_Witness ==
    /\ Listed
    /\ Len(listed) = 2
    /\ \E i \in 1..Len(PageLines(page)) :
          /\ i - 1 > listed[1].start_line
          /\ FooterLine(PageLines(page)[i])
          /\ ~IsHeading(PageLines(page)[i])
    /\ \E line \in BlockLines : FooterLine(line)

-----------------------------------------------------------------------------
(* The field parser over entry texts that hold every label in canonical order *)

Labels ==
    <<"Campground:", "CG Notes:", "Trail:", "Trail Notes:", "Directions:", "Other:",
      "Related Blog Post:", "Contributor:", "Contributor's Blog:">>

\* the key of the entry that holds the value of each label
LabelKeys ==
    <<"campground", "cg_notes", "trail", "trail_notes", "directions", "other",
      "blog_post", "contributor", "contributor_blog">>

PlainValues ==
    <<"Lake Lure", "Quiet sites", "Creek Path", "Flat and paved", "Exit 9 then north",
      "Bring water", "Riding the Creek Path", "Pat", "patrides.example">>

\* how the value of a label is laid out: on the label's line, with a trailing
\* period, missing, or running on to a second line
Layouts == {"period", "empty", "wrapped"}

FieldLines(label, value, layout) ==
    IF layout = "period" THEN <<label \o " " \o value \o ".">>
    ELSE IF layout = "empty" THEN <<label>>
    ELSE IF layout = "wrapped" THEN <<label \o " " \o value, "by the dam">>
    ELSE <<label \o " " \o value>>

\* the lines of the labels k.. of an entry text laid out as `layout` says
RECURSIVE LabelledLines(_, _)
LabelledLines(layout, k) ==
    IF k > Len(Labels) THEN <<>>
    ELSE FieldLines(Labels[k], PlainValues[k], layout[k]) \o LabelledLines(layout, k + 1)

\* the largest number of labels of a text whose value is not laid out plainly
MaxVaried == 2

FieldPages ==
    {PageOf(<<"Asheville, NC">>
            \o LabelledLines([k \in 1..Len(Labels) |-> IF k \in DOMAIN h THEN h[k] ELSE "plain"], 1),
            None) :
        h \in UNION {[S -> Layouts] :
                        S \in {T \in SUBSET (1..Len(Labels)) : Cardinality(T) <= MaxVaried}}}

\* main is run on the only entry of a page of FieldPages
InitFields ==
    /\ pc = "start"
    /\ page \in FieldPages
    /\ args = NoArgs
    /\ env = NoEnv
    /\ entry = EmptyDict
    /\ coordinates = None
    /\ db = None
    /\ listed = <<>>
    /\ sent = 0
    /\ out = {}

SpecFields == InitFields /\ [][Extract]_vars

\* the text of the entry main extracts from
EntryText == find_entries_on_page(page)[args.entry + 1].text

\* where the line of label k begins in text, 0 if there is none
LabelAt(text, k) == Find(text, "\n" \o Labels[k], 1)

\* text holds every label, in canonical order
AllLabelsInOrder(text) ==
    /\ \A k \in 1..Len(Labels) : LabelAt(text, k) # 0
    /\ \A k \in 1..(Len(Labels) - 1) : LabelAt(text, k) < LabelAt(text, k + 1)

\* the text between label k and the next label (the end of the text for the last)
Between(text, k) ==
    SubSeq(text, LabelAt(text, k) + 1 + Len(Labels[k]),
           IF k < Len(Labels) THEN LabelAt(text, k + 1) - 1 ELSE Len(text))

\* the value the text gives label k: names and CG notes without trailing periods
ValueOf(text, k) ==
    IF LabelKeys[k] \in {"campground", "cg_notes", "trail"}
    THEN RStripDot(Strip(Between(text, k)))
    ELSE Strip(Between(text, k))

\* the value the entry holds under a key
FieldOf(e, key) == IF key \in {"campground", "trail"} THEN e[key].name ELSE e[key]

Parsed == pc = "extracted" /\ ~Extracted(page, args.entry).out_of_range

\* C6: for an entry text with every label in canonical order, the entry holds for
\* each label the text between that label and the next (trailing periods of names
\* and CG notes stripped), and no field for a label whose value is empty.
C6_FieldsRoundTrip ==
    (Parsed /\ AllLabelsInOrder(EntryText)) =>
        \A k \in 1..Len(Labels) :
            IF ValueOf(EntryText, k) = ""
            THEN LabelKeys[k] \notin DOMAIN entry
            ELSE /\ LabelKeys[k] \in DOMAIN entry
                 /\ FieldOf(entry, LabelKeys[k]) = ValueOf(EntryText, k)

-----------------------------------------------------------------------------
(* Trails and link attribution over pages of several entries *)

\* entry blocks: one campground and one trail; two trails; neither label; two
\* "Campground:" words and a "Trail:" word after the trail notes; a "Trail:" label
\* without a name
LinkBlocks ==
    {<<"Asheville, NC", "Campground: Lake Lure.", "Trail: Creek Path.", "Trail Notes: Flat.">>,
     <<"Boone, NC (P)", "Campground: Big Pine", "Trail: Ridge Run", "Trail: River Walk">>,
     <<"Bend, OR", "CG Notes: Dry camping only.">>,
     <<"Moab, UT", "Campground: Red Rock", "Overflow Campground: Lot B", "Trail: Canyon Rim",
       "Trail Notes: Steep.", "Old Trail: closed">>,
     <<"Salida, CO", "Campground: River Bend", "Trail:", "Directions: Exit 9.">>}

\* the largest number of entries of a page
MaxBlocks == 2

RECURSIVE Concat(_)
Concat(seqs) == IF seqs = <<>> THEN <<>> ELSE Head(seqs) \o Concat(Tail(seqs))

LinkTexts == {Concat(blocks) : blocks \in UNION {[1..n -> LinkBlocks] : n \in 1..MaxBlocks}}

\* how the label lines of a page are linked: each to a URI of its own; the
\* campground lines to trail-site URIs; all under one link that spans the page
LinkLayouts == {"own", "drifted", "tall"}

CampgroundUri(layout, i) ==
    (IF layout = "drifted" THEN "https://www.TrailLink.com/" ELSE "http://camp.example/")
    \o Char(LowerChars, i)

RECURSIVE LabelAnnots(_, _, _)
LabelAnnots(texts, layout, i) ==
    IF i > Len(texts) THEN <<>>
    ELSE (IF Contains(texts[i], "Campground:")
          THEN <<LinkAnnot(CampgroundUri(layout, i), i, 1)>>
          ELSE IF Contains(texts[i], "Trail:")
          THEN <<LinkAnnot("http://rides.example/" \o Char(LowerChars, i), i, 1)>>
          ELSE <<>>)
         \o LabelAnnots(texts, layout, i + 1)

AnnotsOf(texts, layout) ==
    (IF layout = "tall"
     THEN <<LinkAnnot("http://www.Greenway.example/map", 1, Len(texts))>>
     ELSE <<>>)
    \o LabelAnnots(texts, layout, 1)

LinkPages ==
    {PageOf(texts, Some(AnnotsOf(texts, layout))) : texts \in LinkTexts, layout \in LinkLayouts}

\* main is run on an entry of a page of LinkPages
InitLinks ==
    /\ pc = "start"
    /\ page \in LinkPages
    /\ args \in {[NoArgs EXCEPT !.entry = k] : k \in 0..MaxEntryArg}
    /\ env = NoEnv
    /\ entry = EmptyDict
    /\ coordinates = None
    /\ db = None
    /\ listed = <<>>
    /\ sent = 0
    /\ out = {}

SpecLinks == InitLinks /\ [][Extract]_vars

\* the lines of the entry text before its first "Trail Notes:" line
TrailLines ==
    LET lines == Split(EntryText, "\n")
        notes == {i \in 1..Len(lines) : Contains(lines[i], "Trail Notes:")}
    IN  SubSeq(lines, 1, IF notes = {} THEN Len(lines) ELSE Min(notes) - 1)

\* the names of the 'Trail: <name>' lines of the entry text, in source order
TrailNames ==
    LET IsTrailLine(line) ==
            StartsAt(line, "Trail:", 1) /\ Strip(SubSeq(line, 7, Len(line))) # ""
        named == SelectSeq(TrailLines, IsTrailLine)
    IN  [i \in 1..Len(named) |-> RStripDot(Strip(SubSeq(named[i], 7, Len(named[i]))))]

\* C7: with k 'Trail: <name>' lines before any "Trail Notes:", the entry has
\* neither trail nor trails when k = 0, a single trail and no trails when k = 1,
\* and for k >= 2 a trails list of the k trails in source order whose first element
\* is also the trail field.
C7_TrailsPerTrailLines ==
    Parsed =>
        IF Len(TrailNames) = 0
        THEN "trail" \notin DOMAIN entry /\ "trails" \notin DOMAIN entry
        ELSE IF Len(TrailNames) = 1
        THEN /\ "trail" \in DOMAIN entry
             /\ "trails" \notin DOMAIN entry
             /\ entry.trail.name = TrailNames[1]
        ELSE /\ "trails" \in DOMAIN entry
             /\ "trail" \in DOMAIN entry
             /\ Len(entry.trails) = Len(TrailNames)
             /\ \A i \in 1..Len(TrailNames) : entry.trails[i].name = TrailNames[i]
             /\ entry.trail = entry.trails[1]

\* the substrings that mark a URI as a trail link
TrailIndicators ==
    {"traillink.com", "/trail/", "/trails", "recreationtrails", "loop", "greenway",
     "bikeway", "pathway", "/bicycling"}

\* uri contains one of them, whatever the case of its letters
TrailIndicating(uri) ==
    \E kw \in TrailIndicators, i \in 1..Len(uri) :
        /\ i + Len(kw) - 1 <= Len(uri)
        /\ \A j \in 1..Len(kw) : LowerOf(Char(uri, i + j - 1)) = Char(kw, j)

\* C8: the campground link of an extracted entry is never a URI that contains a
\* trail-indicating substring, in any case of its letters.
C8_CampgroundLinkNotTrailLink ==
    (Parsed /\ "campground" \in DOMAIN entry /\ entry.campground.link # None) =>
        ~TrailIndicating(Val(entry.campground.link))

\* the first link in page order whose band holds y, None if no band holds it
FirstBandLink(links, y) ==
    LET hits == {i \in 1..Len(links) : links[i].y_top - 5 <= y /\ y <= links[i].y_bottom + 5}
    IN  IF hits = {} THEN None ELSE Some(links[Min(hits)].uri)

\* the link at the label word of the given ordinal of the page
AnchorLink(label, ordinal) ==
    LET anchors == WordsEqual(extract_words(page), label)
    IN  IF ordinal < Len(anchors)
        THEN FirstBandLink(extract_links_from_page(page), anchors[ordinal + 1].top)
        ELSE None

\* a campground was extracted whose anchor lies in the band of a trail-site link
\* written in mixed case, and the entry holds no campground link
C8_Witness ==
    /\ Parsed
    /\ "campground" \in DOMAIN entry
    /\ entry.campground.link = None
    /\ AnchorLink("Campground:", args.entry) # None
    /\ TrailIndicating(Val(AnchorLink("Campground:", args.entry)))
    /\ \E i \in 1..Len(Val(AnchorLink("Campground:", args.entry))) :
          Char(Val(AnchorLink("Campground:", args.entry)), i) \in Upper

\* the number of words `label` in the entries before entry k of the page
RECURSIVE OccurrencesBefore(_, _)
OccurrencesBefore(label, k) ==
    IF k = 0 THEN 0
    ELSE LET toks == Tokens(find_entries_on_page(page)[k].text, 1)
         IN  OccurrencesBefore(label, k - 1)
             + Cardinality({i \in 1..Len(toks) : toks[i] = label})

\* a candidate link, absent when it is a trail link
Validated(link) == IF link # None /\ TrailIndicating(Val(link)) THEN None ELSE link

\* the trails of the entry, in order
TrailsOf(e) ==
    IF "trails" \in DOMAIN e THEN e.trails
    ELSE IF "trail" \in DOMAIN e THEN <<e.trail>>
    ELSE <<>>

\* C10: the campground link of entry k is the link at the "Campground:" word whose
\* ordinal is the number of "Campground:" words in entries 0..k-1, and the link of
\* its i-th trail is the link at the "Trail:" word whose ordinal is the number of
\* "Trail:" words in entries 0..k-1 plus i; the link at a word is the first link in
\* page order whose band holds the word's vertical offset, or none.
C10_AnchorsByOccurrences ==
    Parsed =>
        /\ "campground" \in DOMAIN entry =>
              entry.campground.link
                  = Validated(AnchorLink("Campground:",
                                         OccurrencesBefore("Campground:", args.entry)))
        /\ \A i \in 1..Len(TrailsOf(entry)) :
              TrailsOf(entry)[i].link
                  = AnchorLink("Trail:", OccurrencesBefore("Trail:", args.entry) + i - 1)

-----------------------------------------------------------------------------
(* save_entry_to_database called again and again on a store that starts empty *)

StoreCities == {None, Some("Asheville"), Some("Boone")}
StoreStates == {None, Some("NC")}
StoreCampgrounds == {None, Some([name |-> Some("Lake Lure"), link |-> None])}

\* d with key k set when there is a value for it
PutSome(d, k, o) == IF o = None THEN d ELSE Put(d, k, Val(o))

\* the entries the store is called with: each of city, state and campground
\* present or absent
StoreCallEntries ==
    {PutSome(PutSome(PutSome(EmptyDict, "city", c), "state", s), "campground", g) :
        c \in StoreCities, s \in StoreStates, g \in StoreCampgrounds}

\* the coordinates the store is called with: none, or those of a place
StoreCallCoordinates == {None, Some(PlaceRecord(FullPlace))}

\* a caller hands an entry and coordinates to save_entry_to_database
Call ==
    /\ pc \in {"idle", "done", "raised"}
    /\ \E e \in StoreCallEntries, c \in StoreCallCoordinates :
          /\ entry' = e
          /\ coordinates' = c
    /\ out' = {}
    /\ pc' = "save"
    /\ UNCHANGED <<page, args, env, db, listed, sent>>

\* no store file, or a store file without records
InitStore ==
    /\ pc = "idle"
    /\ page = PageNoEntries
    /\ args = [NoArgs EXCEPT !.save = TRUE]
    /\ env = NoEnv
    /\ entry = EmptyDict
    /\ coordinates = None
    /\ db \in {None, Some(DefaultDatabase)}
    /\ listed = <<>>
    /\ sent = 0
    /\ out = {}

SpecStore == InitStore /\ [][Call \/ Save]_vars

\* the (city, state, campground name) triple of a record
KeyOf(r) == <<Get(r, "city"), Get(r, "state"), NameOf(r)>>

\* the triples of the records of the store
StoredKeys(file) == {KeyOf(StoreEntries(file)[i]) : i \in 1..Len(StoreEntries(file))}

\* no two records of the store have the same triple
KeysUnique == Cardinality(StoredKeys(db)) = Len(StoreEntries(db))

\* what a call of save_entry_to_database does to the records: none is removed or
\* moved, and a call that returns leaves one record for each triple saved so far
SaveKeepsKeys ==
    LET old == StoreEntries(db)
        new == StoreEntries(db')
        final == FinalEntry(entry, coordinates)
    IN  /\ Len(new) >= Len(old)
        /\ \A i \in 1..Len(old) : KeyOf(new[i]) = KeyOf(old[i])
        /\ pc' = "done" =>
              /\ StoredKeys(db') = StoredKeys(db) \cup {KeyOf(final)}
              /\ Len(new) = Cardinality(StoredKeys(db) \cup {KeyOf(final)})
        /\ pc' = "raised" => new = old

\* C11: from an empty or missing store, after any sequence of saves no two records
\* of the store have the same (city, state, campground name) triple and there is
\* one record for each distinct triple saved so far; a save never removes a record
\* and never reorders the records.
C11_KeyUniqueness == []KeysUnique /\ [][SaveCalled => SaveKeepsKeys]_vars

\* a save has replaced the first of two records, the second staying where it was
C11_Witness ==
    /\ JustSaved
    /\ Len(StoreEntries(db)) = 2
    /\ StoreEntries(db)[1] = FinalEntry(entry, coordinates)
    /\ "latitude" \in DOMAIN StoreEntries(db)[1]
    /\ "latitude" \notin DOMAIN StoreEntries(db)[2]
    /\ KeyOf(StoreEntries(db)[2]) # KeyOf(StoreEntries(db)[1])

====
